---- MODULE Spec2Model ----
(***************************************************************************)
(* A model of src/dbus_api.rs: the retrying D-Bus method invoker           *)
(* (DBusApi::call_with_args), the property fetcher (DBusApi::property) and *)
(* the VariantTo<T> conversions.                                           *)
(*                                                                         *)
(* Numbers wider than TLC's integers (u64, i64) are kept at their real     *)
(* width as four 16-bit limbs, least significant first; an i64 is in two's *)
(* complement.  An i32 fits TLC's integers and is kept as an integer.      *)
(* Option<T> is a sequence: None is <<>>, Some(x) is <<x>>.                *)
(* An error (error_chain) is the sequence of its layers, outermost first.  *)
(***************************************************************************)
EXTENDS Integers, Sequences, FiniteSets, TLC

VARIABLES
    build,                      \* "debug" | "release": overflow checks on or off
    method_timeout,             \* DBusApi.method_timeout: u64 (limbs)
    method_retry_error_names,   \* DBusApi.method_retry_error_names: slice of names
    pc,                         \* "idle" | "attempt" | "done" | "panicked"
    op,                         \* "none" | "call" | "property" | "convert"
    args,                       \* the running operation's arguments
    retries,                    \* call_with_args_retry: let mut retries
    sends,                      \* send_with_reply_and_block calls of this call
    sleeps,                     \* thread::sleep calls of this call
    elapsed,                    \* seconds slept by this call
    timeouts,                   \* timeouts (ms) handed to the transport
    met,                        \* what the attempts of this operation met so far
    last,                       \* Option: what the latest attempt met
    result,                     \* Option<Result<..>> handed to the caller
    input,                      \* the variant under conversion
    conv                        \* Option<[target, out]>: the last conversion

vars == <<build, method_timeout, method_retry_error_names, pc, op, args, retries,
          sends, sleeps, elapsed, timeouts, met, last, result, input, conv>>

config == <<build, method_timeout, method_retry_error_names>>

-----------------------------------------------------------------------------
(* Option *)

None == <<>>
Some(x) == <<x>>
IsSome(o) == o # <<>>
Unwrap(o) == o[1]

-----------------------------------------------------------------------------
(* Fixed-width integers *)

Limb == 2^16
HalfLimb == 2^15

\* A value 0 <= n < 2^31 as a 64-bit word.
Word(n) == <<n % Limb, n \div Limb, 0, 0>>

\* `x as i32` of a 64-bit word: the low 32 bits, read as signed.
AsI32(w) ==
    IF w[2] >= HalfLimb THEN (w[2] - Limb) * Limb + w[1] ELSE w[2] * Limb + w[1]

\* `a * k` on i32 for a small k > 0: whether the product leaves i32 and the
\* wrapped (two's complement) product.
MulI32(a, k) ==
    LET lo   == (a % Limb) * k
        hi   == (a \div Limb) * k + (lo \div Limb)
        hiW  == ((hi + HalfLimb) % Limb) - HalfLimb
    IN  [overflow |-> hi < -HalfLimb \/ hi >= HalfLimb,
         wrapped  |-> hiW * Limb + (lo % Limb)]

-----------------------------------------------------------------------------
(* Configuration: DBusApi::new *)

DEFAULT_TIMEOUT == 15
RETRIES_ALLOWED == 10
SLEEP_SECS == 1
MILLIS == 1000

\* The method_timeout argument of DBusApi::new: Option<u64>.
TimeoutArgs ==
    { None, Some(Word(0)), Some(Word(1)), Some(Word(15)), Some(Word(2147483)),
      Some(Word(2147484)), Some(<<0, HalfLimb, 0, 0>>), Some(<<15, 0, 1, 0>>),
      Some(<<Limb - 1, Limb - 1, Limb - 1, Limb - 1>>) }

\* The method_retry_error_names argument of DBusApi::new.
RetryNameArgs == { <<"Busy">>, <<"Busy", "Timeout">> }

UnwrapOrDefault(t) == IF IsSome(t) THEN Unwrap(t) ELSE Word(DEFAULT_TIMEOUT)

\* `self.method_timeout as i32 * 1000`: the multiplication panics where it
\* overflows in a build with overflow checks, and wraps in one without.
TimeoutPanics == MulI32(AsI32(method_timeout), MILLIS).overflow /\ build = "debug"
TimeoutMillis == MulI32(AsI32(method_timeout), MILLIS).wrapped

-----------------------------------------------------------------------------
(* Errors: error_chain *)

DBusAPI(message) == [kind |-> "DBusAPI", msg |-> message]
FromDBus(e) == <<[kind |-> "DBus", name |-> e.name, msg |-> e.message]>>
ChainErr(e, k) == <<k>> \o e
Ok(v) == [ok |-> TRUE, val |-> v]
Err(e) == [ok |-> FALSE, err |-> e]

-----------------------------------------------------------------------------
(* The retrying method invoker *)

Paths == {"/nm", "/nm/dev1"}
Interfaces == {"org.NM"}
Methods == {"Scan", "Get"}
Responses == {"reply", "empty"}

\* What one attempt can meet: the message cannot be built, the transport
\* answers, or the transport fails with an error (name: Option, message: Option).
TransportErrors ==
    { [name |-> Some("Busy"), message |-> Some("busy")],
      [name |-> Some("Timeout"), message |-> Some("timed out")],
      [name |-> Some("Denied"), message |-> Some("denied")],
      [name |-> None, message |-> None] }

Outcomes ==
    { [kind |-> "construct_err", details |-> "invalid path"] }
    \cup { [kind |-> "ok", response |-> r] : r \in Responses }
    \cup { [kind |-> "err", error |-> e] : e \in TransportErrors }

\* Mutant of ShouldRetry: an error without a name is taken for a transient one.
ShouldRetryNameless(e) ==
    \/ e.name = None
    \/ \E i \in 1..Len(method_retry_error_names) :
          e.name = Some(method_retry_error_names[i])

\* send_message_checked's match on the transport's answer: None asks for a retry.
ShouldRetry(e) ==
    \E i \in 1..Len(method_retry_error_names) :
        e.name = Some(method_retry_error_names[i])

SendMessageChecked(o) ==
    IF o.kind = "ok" THEN Some(Ok(o.response))
    ELSE IF ShouldRetry(o.error) THEN None
    ELSE Some(Err(FromDBus(o.error)))

\* create_and_send_message, given what the attempt meets.
CreateAndSendMessage(o) ==
    IF o.kind = "construct_err" THEN Some(Err(<<DBusAPI(o.details)>>))
    ELSE SendMessageChecked(o)

CallFailedMessage(a) ==
    a.interface \o "::" \o a.member \o " method call failed on " \o a.path

\* Mutant of WrapCall: the context replaces the failure instead of wrapping it.
WrapCallDropsCause(r, a) ==
    IF r.ok THEN r ELSE Err(<<DBusAPI(CallFailedMessage(a))>>)

\* call_with_args: map_err over call_with_args_retry's result.
WrapCall(r, a) ==
    IF r.ok THEN r ELSE Err(ChainErr(r.err, DBusAPI(CallFailedMessage(a))))

\* format!("{}") of a usize.
Digit(d) == SubSeq("0123456789", d + 1, d + 1)

RECURSIVE UsizeToString(_)
UsizeToString(n) ==
    IF n < 10 THEN Digit(n) ELSE UsizeToString(n \div 10) \o Digit(n % 10)

\* The error call_with_args_retry bails out with.
ExhaustedError ==
    <<DBusAPI("Method call failed after " \o UsizeToString(RETRIES_ALLOWED) \o " retries")>>

-----------------------------------------------------------------------------
(* Variants: what a Variant<Box<dyn RefArg>> answers to arg_type(), as_i64(), *)
(* as_str() and as_iter()                                                     *)

MaxLen == 3

LimbSamples == {0, 42, 300, HalfLimb, Limb - 1}
ByteSamples == {0, 42, 255}
Strings == {"", "eth0", "wlan0"}

\* Sign extension of the low 32 bits.
SignLimb(hi) == IF hi >= HalfLimb THEN Limb - 1 ELSE 0

Scalar(tag, num, str) == [arg_type |-> tag, as_i64 |-> num, as_str |-> str]

Scalars ==
    { Scalar("Byte", Some(<<b, 0, 0, 0>>), None) : b \in ByteSamples }
    \cup { Scalar("Boolean", Some(<<b, 0, 0, 0>>), None) : b \in {0, 1} }
    \cup { Scalar("UInt32", Some(<<a, b, 0, 0>>), None) : a, b \in LimbSamples }
    \cup { Scalar("Int32", Some(<<a, b, SignLimb(b), SignLimb(b)>>), None) :
             a, b \in LimbSamples }
    \cup { Scalar("Int64", Some(<<a, b, c, d>>), None) : a, b, c, d \in LimbSamples }
    \cup { Scalar("String", None, Some(s)) : s \in Strings }
    \cup { Scalar("Double", None, None) }

\* The elements of the longer sequences.
ElemSamples ==
    { Scalar("Byte", Some(<<42, 0, 0, 0>>), None),
      Scalar("Int64", Some(<<300, 0, 0, 0>>), None),
      Scalar("Int64", Some(<<Limb - 1, Limb - 1, Limb - 1, Limb - 1>>), None),
      Scalar("UInt32", Some(<<Limb - 1, Limb - 1, 0, 0>>), None),
      Scalar("String", None, Some("eth0")),
      Scalar("String", None, Some("wlan0")) }

SeqsUpTo(S, n) == UNION { [1..k -> S] : k \in 0..n }

\* A variant holding a scalar: not iterable.
Bare(e) ==
    [arg_type |-> e.arg_type, as_i64 |-> e.as_i64, as_str |-> e.as_str,
     as_iter |-> None]

\* A variant holding a sequence of values.
Array(elems) ==
    [arg_type |-> "Array", as_i64 |-> None, as_str |-> None, as_iter |-> Some(elems)]

Variants ==
    { Bare(e) : e \in Scalars }
    \cup { Array(<<e>>) : e \in Scalars }
    \cup { Array(s) : s \in SeqsUpTo(ElemSamples, MaxLen) }

-----------------------------------------------------------------------------
(* The conversions: impl VariantTo<T> for DBusApi *)

\* Signed order on i64 words: the top limb with its sign bit flipped, then the
\* lower limbs, compared from the top.
Key(w) == <<(w[4] + HalfLimb) % Limb, w[3], w[2], w[1]>>

LexLe(a, b) ==
    \/ a[1] < b[1]
    \/ a[1] = b[1] /\ a[2] < b[2]
    \/ a[1] = b[1] /\ a[2] = b[2] /\ a[3] < b[3]
    \/ a[1] = b[1] /\ a[2] = b[2] /\ a[3] = b[3] /\ a[4] <= b[4]

LeI64(a, b) == LexLe(Key(a), Key(b))

ZeroI64 == <<0, 0, 0, 0>>
U32MaxAsI64 == <<Limb - 1, Limb - 1, 0, 0>>

\* Mutant of InU32Range: the lower bound is not checked.
InU32RangeNoLowerBound(num) == LeI64(num, U32MaxAsI64)

\* `num >= 0 && num <= u32::MAX as i64`
InU32Range(num) == LeI64(ZeroI64, num) /\ LeI64(num, U32MaxAsI64)

\* `num as u32`: the low 32 bits, as two limbs.
AsU32(num) == <<num[1], num[2]>>

\* Mutant of AsU8: the value is clamped to a byte instead of truncated.
AsU8Saturating(num) ==
    IF num[2] = 0 /\ num[3] = 0 /\ num[4] = 0 /\ num[1] < 256 THEN num[1] ELSE 255

\* `value as u8`: the low 8 bits.
AsU8(num) == num[1] % 256

\* `if let Some(num) = x.as_i64() { if in range { return Some(num as u32) } }`:
\* the value returned, or None where control falls through.
TryU32(x) ==
    IF IsSome(x.as_i64) /\ InU32Range(Unwrap(x.as_i64))
    THEN Some(AsU32(Unwrap(x.as_i64)))
    ELSE None

VariantToU32(value) ==
    IF IsSome(value.as_iter)
    THEN LET vec == Unwrap(value.as_iter)
         IN  IF vec # <<>>
             THEN LET first == vec[1]
                  IN  IF first.arg_type = "UInt32"
                      THEN IF IsSome(TryU32(first)) THEN TryU32(first)
                           \* a second walk of the same sequence
                           ELSE TryU32(Unwrap(value.as_iter)[1])
                      ELSE TryU32(first)
             ELSE None
    ELSE IF value.arg_type \in {"UInt32", "Byte"}
         THEN TryU32(value)
         ELSE TryU32(value)

\* Mutant of VariantToBool: nonzero is true.
VariantToBoolNonZero(value) ==
    IF IsSome(value.as_i64) THEN Some(Unwrap(value.as_i64) # ZeroI64) ELSE None

VariantToBool(value) ==
    IF IsSome(value.as_i64) THEN Some(Unwrap(value.as_i64) = ZeroI64) ELSE None

VariantToString(value) ==
    IF IsSome(value.as_str) THEN Some(Unwrap(value.as_str)) ELSE None

VariantToI64(value) == value.as_i64

\* Mutant of VecStringLoop: an element that is no string is skipped.
RECURSIVE VecStringLoopSkips(_, _)
VecStringLoopSkips(list, res) ==
    IF list = <<>> THEN Some(res)
    ELSE IF IsSome(Head(list).as_str)
         THEN VecStringLoopSkips(Tail(list), Append(res, Unwrap(Head(list).as_str)))
         ELSE VecStringLoopSkips(Tail(list), res)

RECURSIVE VecStringLoop(_, _)
VecStringLoop(list, res) ==
    IF list = <<>> THEN Some(res)
    ELSE IF IsSome(Head(list).as_str)
         THEN VecStringLoop(Tail(list), Append(res, Unwrap(Head(list).as_str)))
         ELSE None

VariantToVecString(value) ==
    IF IsSome(value.as_iter) THEN VecStringLoop(Unwrap(value.as_iter), <<>>) ELSE None

RECURSIVE VecU8Loop(_, _)
VecU8Loop(list, res) ==
    IF list = <<>> THEN Some(res)
    ELSE IF IsSome(Head(list).as_i64)
         THEN VecU8Loop(Tail(list), Append(res, AsU8(Unwrap(Head(list).as_i64))))
         ELSE None

VariantToVecU8(value) ==
    IF IsSome(value.as_iter) THEN VecU8Loop(Unwrap(value.as_iter), <<>>) ELSE None

Targets == {"String", "i64", "u32", "bool", "Vec<String>", "Vec<u8>"}

\* DBusApi::variant_to, resolved by the target type T.
VariantTo(T, value) ==
    CASE T = "String" -> VariantToString(value)
      [] T = "i64" -> VariantToI64(value)
      [] T = "u32" -> VariantToU32(value)
      [] T = "bool" -> VariantToBool(value)
      [] T = "Vec<String>" -> VariantToVecString(value)
      [] T = "Vec<u8>" -> VariantToVecU8(value)

\* One call of DBusApi::variant_to on the variant at hand.
Convert(T) ==
    /\ op = "convert"
    /\ IsSome(input)
    /\ conv' = Some([target |-> T, out |-> VariantTo(T, Unwrap(input))])
    /\ UNCHANGED <<config, pc, op, args, retries, sends, sleeps, elapsed, timeouts,
                   met, last, result, input>>

ConvInit ==
    /\ build = "release"
    /\ method_timeout = UnwrapOrDefault(None)
    /\ method_retry_error_names = <<"Busy">>
    /\ pc = "idle"
    /\ op = "convert"
    /\ args = None
    /\ retries = 0
    /\ sends = 0
    /\ sleeps = 0
    /\ elapsed = 0
    /\ timeouts = {}
    /\ met = {}
    /\ last = None
    /\ result = None
    /\ input \in { Some(v) : v \in Variants }
    /\ conv = None

ConvNext == \E T \in Targets : Convert(T)

ConvSpec == ConvInit /\ [][ConvNext]_vars

-----------------------------------------------------------------------------
(* The property fetcher *)

PropertyNames == {"State"}

\* The variants a property fetch returns here.
PropVariants ==
    { Bare(Scalar("UInt32", Some(<<42, 0, 0, 0>>), None)),
      Bare(Scalar("Int64", Some(<<0, 0, 1, 0>>), None)),
      Bare(Scalar("Boolean", Some(<<0, 0, 0, 0>>), None)),
      Bare(Scalar("String", None, Some("eth0"))),
      Array(<<Scalar("Byte", Some(<<42, 0, 0, 0>>), None)>>),
      Array(<<Scalar("String", None, Some("eth0")),
              Scalar("String", None, Some("wlan0"))>>),
      Array(<<Scalar("String", None, Some("eth0")),
              Scalar("Int64", Some(<<300, 0, 0, 0>>), None)>>),
      Array(<<>>) }

Fetches ==
    { [kind |-> "ok", variant |-> v] : v \in PropVariants }
    \cup { [kind |-> "err", error |-> e] : e \in TransportErrors }

\* property's closure property_error: the message it formats.
PropertyError(a, details) ==
    DBusAPI("Get " \o a.interface \o "::" \o a.member \o " property failed on "
            \o a.path \o ": " \o details)

\* Mutant of PropertyResult: a failed fetch loses the transport error.
PropertyResultDropsCause(T, a, f) ==
    IF f.kind = "ok"
    THEN IF IsSome(VariantTo(T, f.variant))
         THEN Ok(Unwrap(VariantTo(T, f.variant)))
         ELSE Err(<<PropertyError(a, "wrong property type")>>)
    ELSE Err(<<IF IsSome(f.error.message)
               THEN PropertyError(a, Unwrap(f.error.message))
               ELSE PropertyError(a, "no details")>>)

\* property's match on path.get(interface, name).
PropertyResult(T, a, f) ==
    IF f.kind = "ok"
    THEN IF IsSome(VariantTo(T, f.variant))
         THEN Ok(Unwrap(VariantTo(T, f.variant)))
         ELSE Err(<<PropertyError(a, "wrong property type")>>)
    ELSE Err(ChainErr(FromDBus(f.error),
                      IF IsSome(f.error.message)
                      THEN PropertyError(a, Unwrap(f.error.message))
                      ELSE PropertyError(a, "no details")))

\* property<T>(path, interface, name), given what the fetch meets.
Property(T, path, interface, name, f) ==
    /\ pc = "idle"
    /\ op = "none"
    /\ ~TimeoutPanics
    /\ pc' = "done"
    /\ op' = "property"
    /\ args' = [path |-> path, interface |-> interface, member |-> name]
    /\ timeouts' = {TimeoutMillis}
    /\ met' = {f}
    /\ last' = Some(f)
    /\ input' = IF f.kind = "ok" THEN Some(f.variant) ELSE None
    /\ conv' = IF f.kind = "ok"
               THEN Some([target |-> T, out |-> VariantTo(T, f.variant)])
               ELSE Some([target |-> T, out |-> None])
    /\ result' = Some(PropertyResult(T, args', f))
    /\ UNCHANGED <<config, retries, sends, sleeps, elapsed>>

\* property<T> where with_path's timeout computation panics.
PropertyPanic(T, path, interface, name) ==
    /\ pc = "idle"
    /\ op = "none"
    /\ TimeoutPanics
    /\ pc' = "panicked"
    /\ op' = "property"
    /\ args' = [path |-> path, interface |-> interface, member |-> name]
    /\ UNCHANGED <<config, retries, sends, sleeps, elapsed, timeouts, met, last,
                   result, input, conv>>

-----------------------------------------------------------------------------
(* The invoker's life *)

Init ==
    /\ build \in {"debug", "release"}
    /\ method_timeout \in { UnwrapOrDefault(t) : t \in TimeoutArgs }
    /\ method_retry_error_names \in RetryNameArgs
    /\ pc = "idle"
    /\ op = "none"
    /\ args = None
    /\ retries = 0
    /\ sends = 0
    /\ sleeps = 0
    /\ elapsed = 0
    /\ timeouts = {}
    /\ met = {}
    /\ last = None
    /\ result = None
    /\ input = None
    /\ conv = None

\* call / call_with_args entered: call_with_args_retry starts its loop.
CallWithArgs(path, interface, method) ==
    /\ pc = "idle"
    /\ op = "none"
    /\ pc' = "attempt"
    /\ op' = "call"
    /\ args' = [path |-> path, interface |-> interface, member |-> method]
    /\ retries' = 0
    /\ sends' = 0
    /\ sleeps' = 0
    /\ elapsed' = 0
    /\ timeouts' = {}
    /\ met' = {}
    /\ last' = None
    /\ result' = None
    /\ UNCHANGED <<config, input, conv>>

\* One iteration of call_with_args_retry's loop whose message cannot be built.
AttemptConstructErr(o) ==
    /\ pc = "attempt"
    /\ o.kind = "construct_err"
    /\ met' = met \cup {o}
    /\ last' = Some(o)
    /\ result' = Some(WrapCall(Unwrap(CreateAndSendMessage(o)), args))
    /\ pc' = "done"
    /\ UNCHANGED <<config, op, args, retries, sends, sleeps, elapsed, timeouts,
                   input, conv>>

\* One iteration whose timeout computation panics (overflow checks on).
AttemptPanic(o) ==
    /\ pc = "attempt"
    /\ o.kind # "construct_err"
    /\ TimeoutPanics
    /\ pc' = "panicked"
    /\ UNCHANGED <<config, op, args, retries, sends, sleeps, elapsed, timeouts,
                   met, last, result, input, conv>>

\* One iteration that sends the message and returns the answer or a fatal error.
AttemptReturn(o) ==
    /\ pc = "attempt"
    /\ o.kind # "construct_err"
    /\ ~TimeoutPanics
    /\ IsSome(CreateAndSendMessage(o))
    /\ sends' = sends + 1
    /\ timeouts' = timeouts \cup {TimeoutMillis}
    /\ met' = met \cup {o}
    /\ last' = Some(o)
    /\ result' = Some(WrapCall(Unwrap(CreateAndSendMessage(o)), args))
    /\ pc' = "done"
    /\ UNCHANGED <<config, op, args, retries, sleeps, elapsed, input, conv>>

\* Mutant of AttemptRetry: the budget is compared before the counter is raised.
AttemptRetryLateCheck(o) ==
    /\ pc = "attempt"
    /\ o.kind # "construct_err"
    /\ ~TimeoutPanics
    /\ ~IsSome(CreateAndSendMessage(o))
    /\ retries # RETRIES_ALLOWED
    /\ sends' = sends + 1
    /\ timeouts' = timeouts \cup {TimeoutMillis}
    /\ met' = met \cup {o}
    /\ last' = Some(o)
    /\ retries' = retries + 1
    /\ sleeps' = sleeps + 1
    /\ elapsed' = elapsed + SLEEP_SECS
    /\ UNCHANGED <<config, pc, op, args, result, input, conv>>

\* One iteration that sends the message, is asked to retry, and sleeps.
AttemptRetry(o) ==
    /\ pc = "attempt"
    /\ o.kind # "construct_err"
    /\ ~TimeoutPanics
    /\ ~IsSome(CreateAndSendMessage(o))
    /\ retries + 1 # RETRIES_ALLOWED
    /\ sends' = sends + 1
    /\ timeouts' = timeouts \cup {TimeoutMillis}
    /\ met' = met \cup {o}
    /\ last' = Some(o)
    /\ retries' = retries + 1
    /\ sleeps' = sleeps + 1
    /\ elapsed' = elapsed + SLEEP_SECS
    /\ UNCHANGED <<config, pc, op, args, result, input, conv>>

\* Mutant of AttemptExhausted: the loop sleeps before it gives up.
AttemptExhaustedSleeps(o) ==
    /\ pc = "attempt"
    /\ o.kind # "construct_err"
    /\ ~TimeoutPanics
    /\ ~IsSome(CreateAndSendMessage(o))
    /\ retries + 1 = RETRIES_ALLOWED
    /\ sends' = sends + 1
    /\ timeouts' = timeouts \cup {TimeoutMillis}
    /\ met' = met \cup {o}
    /\ last' = Some(o)
    /\ retries' = retries + 1
    /\ sleeps' = sleeps + 1
    /\ elapsed' = elapsed + SLEEP_SECS
    /\ result' = Some(WrapCall(Err(ExhaustedError), args))
    /\ pc' = "done"
    /\ UNCHANGED <<config, op, args, input, conv>>

\* The iteration that uses up the retries: bail!, no sleep.
AttemptExhausted(o) ==
    /\ pc = "attempt"
    /\ o.kind # "construct_err"
    /\ ~TimeoutPanics
    /\ ~IsSome(CreateAndSendMessage(o))
    /\ retries + 1 = RETRIES_ALLOWED
    /\ sends' = sends + 1
    /\ timeouts' = timeouts \cup {TimeoutMillis}
    /\ met' = met \cup {o}
    /\ last' = Some(o)
    /\ retries' = retries + 1
    /\ result' = Some(WrapCall(Err(ExhaustedError), args))
    /\ pc' = "done"
    /\ UNCHANGED <<config, op, args, sleeps, elapsed, input, conv>>

\* The caller takes the result; the invoker keeps nothing between calls.
Return ==
    /\ pc = "done"
    /\ pc' = "idle"
    /\ op' = "none"
    /\ args' = None
    /\ retries' = 0
    /\ sends' = 0
    /\ sleeps' = 0
    /\ elapsed' = 0
    /\ timeouts' = {}
    /\ met' = {}
    /\ last' = None
    /\ result' = None
    /\ input' = None
    /\ conv' = None
    /\ UNCHANGED config

Next ==
    \/ \E p \in Paths, i \in Interfaces, m \in Methods : CallWithArgs(p, i, m)
    \/ \E o \in Outcomes : AttemptConstructErr(o)
    \/ \E o \in Outcomes : AttemptPanic(o)
    \/ \E o \in Outcomes : AttemptReturn(o)
    \/ \E o \in Outcomes : AttemptRetry(o)
    \/ \E o \in Outcomes : AttemptExhausted(o)
    \/ /\ pc = "idle"
       /\ \E T \in Targets, p \in Paths, i \in Interfaces, n \in PropertyNames,
             f \in Fetches : Property(T, p, i, n, f)
    \/ /\ pc = "idle"
       /\ \E T \in Targets, p \in Paths, i \in Interfaces, n \in PropertyNames :
             PropertyPanic(T, p, i, n)
    \/ Return

Spec == Init /\ [][Next]_vars

-----------------------------------------------------------------------------
(* Properties of the invoker and the property fetcher, checked under Spec *)

\* The outcome's error name is one of the configured transient names.
NameInRetrySet(o) ==
    /\ o.kind = "err"
    /\ Len(o.error.name) = 1
    /\ o.error.name[1] \in { method_retry_error_names[i] :
                               i \in DOMAIN method_retry_error_names }

CallRunning == op = "call" /\ pc = "attempt"
CallDone == op = "call" /\ pc = "done"
LastKind(k) == IsSome(last) /\ Unwrap(last).kind = k

\* C1: one call sends at most 10 method-call messages; no success has been met
\* while the loop still runs, and the attempt that succeeds ends the call with
\* that response, after one sleep per earlier failed attempt (success on
\* attempt 10: 10 messages and 9 retry delays).
C1_BoundedAttemptsFirstSuccessReturns ==
    /\ sends <= 10
    /\ CallRunning => \A o \in met : o.kind # "ok"
    /\ (op = "call" /\ LastKind("ok")) =>
          /\ pc = "done"
          /\ result = Some([ok |-> TRUE, val |-> Unwrap(last).response])
          /\ sends = retries + 1
          /\ sleeps = sends - 1
          /\ elapsed = sleeps
          /\ \A o \in met \ {Unwrap(last)} : NameInRetrySet(o)

C1_Witness ==
    /\ CallDone
    /\ LastKind("ok")
    /\ sends = 10
    /\ sleeps = 9
    /\ Unwrap(result).ok

\* C2: a call all of whose attempts fail with a transient-named error ends
\* with the retries-exhausted error naming 10, after exactly 10 sends and 9
\* sleeps of one second; while it runs it has slept once per failed attempt.
C2_AllTransientExhausts ==
    /\ (CallDone /\ \A o \in met : NameInRetrySet(o)) =>
          /\ sends = 10
          /\ sleeps = 9
          /\ elapsed = 9
          /\ ~Unwrap(result).ok
          /\ Len(Unwrap(result).err) = 2
          /\ Unwrap(result).err[2] =
                [kind |-> "DBusAPI", msg |-> "Method call failed after 10 retries"]
    /\ CallRunning => sends = retries /\ sleeps = retries /\ sends <= 9

C2_Witness ==
    /\ CallDone
    /\ \A o \in met : NameInRetrySet(o)
    /\ sends = 10
    /\ sleeps = 9
    /\ ~Unwrap(result).ok

\* The last attempt met a failure that is not to be retried.
LastIsFatal ==
    /\ op = "call"
    /\ IsSome(last)
    /\ \/ Unwrap(last).kind = "construct_err"
       \/ Unwrap(last).kind = "err" /\ ~NameInRetrySet(Unwrap(last))

\* C3: an attempt that fails with a non-retryable failure (a transport error
\* whose name is not in the transient set or is absent, or a message that
\* cannot be built) ends the call there with that error: no sleep follows it
\* (the sleeps are those of the earlier transient failures) and no attempt.
C3_FatalFailureEndsCall ==
    LastIsFatal =>
        /\ pc = "done"
        /\ ~Unwrap(result).ok
        /\ sleeps = retries
        /\ elapsed = retries
        /\ \A o \in met \ {Unwrap(last)} : NameInRetrySet(o)
        /\ IF Unwrap(last).kind = "construct_err"
           THEN /\ sends = retries
                /\ Unwrap(result).err[2] =
                      [kind |-> "DBusAPI", msg |-> Unwrap(last).details]
           ELSE /\ sends = retries + 1
                /\ Unwrap(result).err[2] =
                      [kind |-> "DBus", name |-> Unwrap(last).error.name,
                       msg |-> Unwrap(last).error.message]

C3_Witness ==
    /\ LastIsFatal
    /\ Unwrap(last).kind = "err"
    /\ Unwrap(last).error.name = None
    /\ retries = 3
    /\ sleeps = 3
    /\ pc = "done"

\* The failure call_with_args_retry ended with, told from what the last
\* attempt met.
OriginalFailure ==
    LET o == Unwrap(last)
    IN  IF o.kind = "construct_err" THEN <<[kind |-> "DBusAPI", msg |-> o.details]>>
        ELSE IF NameInRetrySet(o)
             THEN <<[kind |-> "DBusAPI", msg |-> "Method call failed after 10 retries"]>>
             ELSE <<[kind |-> "DBus", name |-> o.error.name, msg |-> o.error.message]>>

\* C5: every failed call reaches the caller as an error whose outermost layer
\* is "{interface}::{method} method call failed on {path}", with the original
\* failure as its cause; a successful call is returned as it is.
C5_FailureWrappedWithContext ==
    CallDone =>
        IF LastKind("ok")
        THEN result = Some([ok |-> TRUE, val |-> Unwrap(last).response])
        ELSE /\ ~Unwrap(result).ok
             /\ Head(Unwrap(result).err).kind = "DBusAPI"
             /\ Head(Unwrap(result).err).msg =
                   args.interface \o "::" \o args.member
                   \o " method call failed on " \o args.path
             /\ (args.path = "/nm/dev1" /\ args.member = "Scan") =>
                   Head(Unwrap(result).err).msg =
                       "org.NM::Scan method call failed on /nm/dev1"
             /\ Tail(Unwrap(result).err) = OriginalFailure

C5_Witness ==
    /\ CallDone
    /\ LastKind("err")
    /\ ~NameInRetrySet(Unwrap(last))
    /\ Unwrap(result).err =
          <<[kind |-> "DBusAPI", msg |-> "org.NM::Get method call failed on /nm"],
            [kind |-> "DBus", name |-> Some("Denied"), msg |-> Some("denied")]>>

PropertyDone == op = "property" /\ pc = "done"

PropertyMessage(details) ==
    "Get " \o args.interface \o "::" \o args.member \o " property failed on "
    \o args.path \o ": " \o details

\* C8: property<T> returns Ok(v) only when the fetch succeeded and the variant
\* converts to Some(v); a variant that does not convert gives the error
\* "Get {interface}::{name} property failed on {path}: wrong property type";
\* a failed fetch gives the same message with the transport's details (or
\* "no details") around the transport error.
C8_PropertyResult ==
    PropertyDone =>
        LET f == Unwrap(last)
            r == Unwrap(result)
        IN  IF f.kind = "ok"
            THEN LET c == VariantTo(Unwrap(conv).target, f.variant)
                 IN  IF IsSome(c)
                     THEN r.ok /\ Some(r.val) = c
                     ELSE /\ ~r.ok
                          /\ r.err = <<[kind |-> "DBusAPI",
                                        msg |-> PropertyMessage("wrong property type")]>>
            ELSE /\ ~r.ok
                 /\ r.err =
                       <<[kind |-> "DBusAPI",
                          msg |-> PropertyMessage(IF f.error.message = None
                                                  THEN "no details"
                                                  ELSE f.error.message[1])],
                         [kind |-> "DBus", name |-> f.error.name,
                          msg |-> f.error.message]>>

C8_Witness ==
    /\ PropertyDone
    /\ LastKind("ok")
    /\ Unwrap(conv).target = "Vec<String>"
    /\ Unwrap(result) =
          [ok |-> FALSE,
           err |-> <<[kind |-> "DBusAPI",
                      msg |-> "Get org.NM::State property failed on /nm: wrong property type"]>>]

\* C10 (as claimed): every timeout handed to the transport is the configured
\* method_timeout times 1000, with no wrap-around and no change of sign, and
\* computing it never aborts the operation.
C10_TimeoutIsSecondsTimesThousand ==
    /\ pc # "panicked"
    /\ \A t \in timeouts :
          /\ t >= 0
          /\ t % 1000 = 0
          /\ method_timeout = <<(t \div 1000) % Limb, (t \div 1000) \div Limb, 0, 0>>

-----------------------------------------------------------------------------
(* Properties of the conversions, checked under ConvSpec *)

Converted(T) == IsSome(conv) /\ Unwrap(conv).target = T
Out == Unwrap(conv).out
In == Unwrap(input)

\* The input is a bare scalar or a sequence of exactly one scalar.
ScalarShaped == In.as_iter = None \/ Len(Unwrap(In.as_iter)) = 1

\* The scalar such an input carries.
Carried == IF In.as_iter = None THEN In ELSE Unwrap(In.as_iter)[1]

\* C4: u32 conversion of a bare scalar, or of a one-element sequence, that
\* carries the integer n: Some(n) when 0 <= n <= 2^32-1 (the two upper limbs
\* of n are zero), None when n is outside that range, whatever the type tag.
C4_U32Conversion ==
    (Converted("u32") /\ ScalarShaped /\ IsSome(Carried.as_i64)) =>
        LET n == Unwrap(Carried.as_i64)
        IN  IF n[3] = 0 /\ n[4] = 0
            THEN Out = Some(<<n[1], n[2]>>)
            ELSE Out = None

C4_Witness ==
    /\ Converted("u32")
    /\ In.as_iter = Some(<<[arg_type |-> "Byte", as_i64 |-> Some(<<42, 0, 0, 0>>),
                            as_str |-> None]>>)
    /\ Out = Some(<<42, 0>>)

\* C6: Vec<String> conversion of an iterable of N elements is Some of all N
\* strings in order when every element carries a string and None when any
\* does not; a value that is not iterable gives None.
C6_VecStringConversion ==
    Converted("Vec<String>") =>
        IF In.as_iter = None THEN Out = None
        ELSE LET list == Unwrap(In.as_iter)
             IN  IF \A i \in DOMAIN list : list[i].as_str # None
                 THEN Out = Some([i \in DOMAIN list |-> list[i].as_str[1]])
                 ELSE Out = None

C6_Witness ==
    /\ Converted("Vec<String>")
    /\ In.as_iter # None
    /\ Len(Unwrap(In.as_iter)) = 3
    /\ Unwrap(In.as_iter)[1].as_str = Some("eth0")
    /\ Unwrap(In.as_iter)[2].as_str = None
    /\ Out = None

\* C7: bool conversion: numeric value 0 gives Some(true), any other numeric
\* value gives Some(false), no numeric payload gives None.
C7_BoolConversion ==
    Converted("bool") =>
        IF In.as_i64 = None THEN Out = None
        ELSE IF \A k \in 1..4 : Unwrap(In.as_i64)[k] = 0
             THEN Out = Some(TRUE)
             ELSE Out = Some(FALSE)

C7_Witness ==
    /\ Converted("bool")
    /\ In.as_i64 = Some(<<0, 0, 300, 0>>)
    /\ Out = Some(FALSE)

\* The integer an i64 word stands for, where TLC's integers hold it.
IsSmall(n) ==
    \/ n[2] = 0 /\ n[3] = 0 /\ n[4] = 0
    \/ n[2] = Limb - 1 /\ n[3] = Limb - 1 /\ n[4] = Limb - 1
SmallInt(n) == IF n[4] = 0 THEN n[1] ELSE n[1] - Limb

\* C9: Vec<u8> conversion of an iterable whose elements are all numeric is
\* Some of the list of the same length whose i-th byte is the i-th value
\* mod 256; any element without a numeric value gives None; a value that is
\* not iterable gives None.
C9_VecU8Conversion ==
    Converted("Vec<u8>") =>
        IF In.as_iter = None THEN Out = None
        ELSE LET list == Unwrap(In.as_iter)
             IN  IF \A i \in DOMAIN list : list[i].as_i64 # None
                 THEN /\ Out # None
                      /\ Len(Unwrap(Out)) = Len(list)
                      /\ \A i \in DOMAIN list :
                            LET n == Unwrap(list[i].as_i64)
                                b == Unwrap(Out)[i]
                            IN  /\ b \in 0..255
                                /\ (n[1] - b) % 256 = 0
                                /\ IsSmall(n) => b = SmallInt(n) % 256
                 ELSE Out = None

C9_Witness ==
    /\ Converted("Vec<u8>")
    /\ In.as_iter # None
    /\ Len(Unwrap(In.as_iter)) = 2
    /\ Unwrap(In.as_iter)[1].as_i64 = Some(<<300, 0, 0, 0>>)
    /\ Out = Some(<<44, 255>>)

====
